---- MODULE Spec2Model ----
(***************************************************************************)
(* State-machine model of the ChessGame class of src/chess.js: the board,  *)
(* the legal-move generator, the check analyser and the move applier,      *)
(* driven by handleSquareClick and resetGame.  The DOM side effects        *)
(* (rendering, highlights) are left out except for the text of the         *)
(* game-status element, which carries the terminal classification.         *)
(***************************************************************************)
EXTENDS Integers, Sequences, FiniteSets, TLC

VARIABLES board, currentTurn, selectedSquare, validMoves, capturedPieces,
          gameOver, hasMoved, gameStatus, moveCount, lastMove, unmoved, scenario

vars == <<board, currentTurn, selectedSquare, validMoves, capturedPieces,
          gameOver, hasMoved, gameStatus, moveCount, lastMove, unmoved, scenario>>

(***************************************************************************)
(* Pieces: a letter whose case is the colour; null is the empty square.    *)
(***************************************************************************)
null == "-"

toUpperCase(p) ==
    CASE p = "k" -> "K" [] p = "q" -> "Q" [] p = "r" -> "R"
      [] p = "b" -> "B" [] p = "n" -> "N" [] p = "p" -> "P"
      [] OTHER -> p

toLowerCase(p) ==
    CASE p = "K" -> "k" [] p = "Q" -> "q" [] p = "R" -> "r"
      [] p = "B" -> "b" [] p = "N" -> "n" [] p = "P" -> "p"
      [] OTHER -> p

Rows == 0..7
Cols == 0..7

INITIAL_BOARD ==
    [r \in Rows |->
        CASE r = 0 -> [c \in Cols |-> <<"r","n","b","q","k","b","n","r">>[c + 1]]
          [] r = 1 -> [c \in Cols |-> "p"]
          [] r = 6 -> [c \in Cols |-> "P"]
          [] r = 7 -> [c \in Cols |-> <<"R","N","B","Q","K","B","N","R">>[c + 1]]
          [] OTHER -> [c \in Cols |-> null]]

\* A move object {row, col} and a castling move {row, col, isCastling, rookCol}.
Mv(r, c) == [row |-> r, col |-> c]
CastlingMv(r, c, rc) == [row |-> r, col |-> c, isCastling |-> TRUE, rookCol |-> rc]
\* move.isCastling is truthy only on a castling move object.
IsCastling(m) == "isCastling" \in DOMAIN m /\ m.isCastling

isInBounds(row, col) == row >= 0 /\ row < 8 /\ col >= 0 /\ col < 8

\* isOpponentPiece without the colour comparison.
isOpponentPiece_anyPiece(b, row, col, isWhite) ==
    b[row][col] # null

isOpponentPiece(b, row, col, isWhite) ==
    LET piece == b[row][col]
    IN  IF piece = null THEN FALSE
        ELSE IF isWhite THEN piece = toLowerCase(piece)
                        ELSE piece = toUpperCase(piece)

\* getPawnMoves without the two-square advance.
getPawnMoves_noDoubleStep(b, row, col) ==
    LET piece == b[row][col]
        isWhite == piece = toUpperCase(piece)
        direction == IF isWhite THEN -1 ELSE 1
        forward ==
            IF isInBounds(row + direction, col) /\ b[row + direction][col] = null
            THEN <<Mv(row + direction, col)>>
            ELSE <<>>
        capture(colOffset) ==
            LET newRow == row + direction
                newCol == col + colOffset
            IN  IF isInBounds(newRow, newCol) /\ b[newRow][newCol] # null
                   /\ isOpponentPiece(b, newRow, newCol, isWhite)
                THEN <<Mv(newRow, newCol)>> ELSE <<>>
    IN  forward \o capture(-1) \o capture(1)

getPawnMoves(b, row, col) ==
    LET piece == b[row][col]
        isWhite == piece = toUpperCase(piece)
        direction == IF isWhite THEN -1 ELSE 1
        startRow == IF isWhite THEN 6 ELSE 1
        forward ==
            IF isInBounds(row + direction, col) /\ b[row + direction][col] = null
            THEN <<Mv(row + direction, col)>> \o
                 (IF row = startRow /\ b[row + 2 * direction][col] = null
                  THEN <<Mv(row + 2 * direction, col)>> ELSE <<>>)
            ELSE <<>>
        capture(colOffset) ==
            LET newRow == row + direction
                newCol == col + colOffset
            IN  IF isInBounds(newRow, newCol) /\ b[newRow][newCol] # null
                   /\ isOpponentPiece(b, newRow, newCol, isWhite)
                THEN <<Mv(newRow, newCol)>> ELSE <<>>
    IN  forward \o capture(-1) \o capture(1)

\* The while loop of getLinearMoves for one direction, from (newRow, newCol).
RECURSIVE LinearRay(_, _, _, _, _, _)
LinearRay(b, isWhite, newRow, newCol, rowDir, colDir) ==
    IF ~isInBounds(newRow, newCol) THEN <<>>
    ELSE IF b[newRow][newCol] = null
         THEN <<Mv(newRow, newCol)>>
              \o LinearRay(b, isWhite, newRow + rowDir, newCol + colDir, rowDir, colDir)
         ELSE IF isOpponentPiece(b, newRow, newCol, isWhite)
              THEN <<Mv(newRow, newCol)>> ELSE <<>>

LinearDirection(b, row, col, rowDir, colDir) ==
    LinearRay(b, b[row][col] = toUpperCase(b[row][col]),
              row + rowDir, col + colDir, rowDir, colDir)

\* directions.forEach(...), in order.
RECURSIVE getLinearMoves(_, _, _, _)
getLinearMoves(b, row, col, directions) ==
    IF directions = <<>> THEN <<>>
    ELSE LinearDirection(b, row, col, Head(directions)[1], Head(directions)[2])
         \o getLinearMoves(b, row, col, Tail(directions))

getRookMoves(b, row, col) ==
    getLinearMoves(b, row, col, << <<-1, 0>>, <<1, 0>>, <<0, -1>>, <<0, 1>> >>)

getBishopMoves(b, row, col) ==
    getLinearMoves(b, row, col, << <<-1, -1>>, <<-1, 1>>, <<1, -1>>, <<1, 1>> >>)

\* getQueenMoves with the rook's directions only.
getQueenMoves_noDiagonals(b, row, col) ==
    getLinearMoves(b, row, col, << <<-1, 0>>, <<1, 0>>, <<0, -1>>, <<0, 1>> >>)

getQueenMoves(b, row, col) ==
    getLinearMoves(b, row, col,
        << <<-1, 0>>, <<1, 0>>, <<0, -1>>, <<0, 1>>,
           <<-1, -1>>, <<-1, 1>>, <<1, -1>>, <<1, 1>> >>)

\* One offset of the knight's and of the king's forEach.
StepOffset(b, row, col, rowOffset, colOffset) ==
    LET piece == b[row][col]
        isWhite == piece = toUpperCase(piece)
        newRow == row + rowOffset
        newCol == col + colOffset
    IN  IF isInBounds(newRow, newCol)
           /\ (b[newRow][newCol] = null \/ isOpponentPiece(b, newRow, newCol, isWhite))
        THEN <<Mv(newRow, newCol)>> ELSE <<>>

\* offsets.forEach(...) pushing zero or one move per offset, in order.
RECURSIVE StepMoves(_, _, _, _)
StepMoves(b, row, col, offsets) ==
    IF offsets = <<>> THEN <<>>
    ELSE StepOffset(b, row, col, Head(offsets)[1], Head(offsets)[2])
         \o StepMoves(b, row, col, Tail(offsets))

getKnightMoves(b, row, col) ==
    StepMoves(b, row, col,
        << <<-2, -1>>, <<-2, 1>>, <<-1, -2>>, <<-1, 2>>,
           <<1, -2>>, <<1, 2>>, <<2, -1>>, <<2, 1>> >>)

getBasicKingMoves(b, row, col) ==
    StepMoves(b, row, col,
        << <<-1, -1>>, <<-1, 0>>, <<-1, 1>>,
           <<0, -1>>, <<0, 1>>,
           <<1, -1>>, <<1, 0>>, <<1, 1>> >>)

getValidMovesWithoutCheckValidation(b, row, col) ==
    LET piece == b[row][col]
        pieceType == toLowerCase(piece)
    IN  IF piece = null THEN <<>>
        ELSE CASE pieceType = "p" -> getPawnMoves(b, row, col)
               [] pieceType = "r" -> getRookMoves(b, row, col)
               [] pieceType = "n" -> getKnightMoves(b, row, col)
               [] pieceType = "b" -> getBishopMoves(b, row, col)
               [] pieceType = "q" -> getQueenMoves(b, row, col)
               [] pieceType = "k" -> getBasicKingMoves(b, row, col)
               [] OTHER -> <<>>

\* moves.some(move => move.row === row && move.col === col)
SomeMoveTo(moves, row, col) ==
    \E i \in DOMAIN moves : moves[i].row = row /\ moves[i].col = col

\* isSquareUnderAttack with the colour test inverted: the side's own pieces attack.
isSquareUnderAttack_ownPieces(b, row, col, isWhite) ==
    \E r \in Rows : \E c \in Cols :
        LET piece == b[r][c]
        IN  /\ piece # null
            /\ \/ ~isWhite /\ piece = toLowerCase(piece)
               \/ isWhite /\ piece = toUpperCase(piece)
            /\ SomeMoveTo(getValidMovesWithoutCheckValidation(b, r, c), row, col)

isSquareUnderAttack(b, row, col, isWhite) ==
    \E r \in Rows : \E c \in Cols :
        LET piece == b[r][c]
        IN  /\ piece # null
            /\ \/ isWhite /\ piece = toLowerCase(piece)
               \/ ~isWhite /\ piece = toUpperCase(piece)
            /\ SomeMoveTo(getValidMovesWithoutCheckValidation(b, r, c), row, col)

isKingInCheck(b, isWhite) ==
    LET king == IF isWhite THEN "K" ELSE "k"
        kings == {p \in Rows \X Cols : b[p[1]][p[2]] = king}
        \* the first king met in row-major order
        kingPos == CHOOSE p \in kings :
                      \A q \in kings : p[1] * 8 + p[2] <= q[1] * 8 + q[2]
    IN  IF kings = {} THEN FALSE
        ELSE \E row \in Rows : \E col \in Cols :
                LET piece == b[row][col]
                IN  /\ piece # null
                    /\ \/ isWhite /\ piece = toLowerCase(piece)
                       \/ ~isWhite /\ piece = toUpperCase(piece)
                    /\ SomeMoveTo(getValidMovesWithoutCheckValidation(b, row, col),
                                  kingPos[1], kingPos[2])

\* getCastlingMoves accepting any piece on the corner square.
getCastlingMoves_anyCornerPiece(b, hm, row, col, isWhite) ==
    LET kingMoved == IF isWhite THEN hm.whiteKing ELSE hm.blackKing
        baseRow == IF isWhite THEN 7 ELSE 0
        kingsideRookMoved == IF isWhite THEN hm.whiteRookRight ELSE hm.blackRookRight
        queensideRookMoved == IF isWhite THEN hm.whiteRookLeft ELSE hm.blackRookLeft
        kingside ==
            IF /\ ~kingsideRookMoved
               /\ b[baseRow][5] = null
               /\ b[baseRow][6] = null
               /\ b[baseRow][7] # null
               /\ ~isSquareUnderAttack(b, baseRow, 5, isWhite)
               /\ ~isSquareUnderAttack(b, baseRow, 6, isWhite)
            THEN <<CastlingMv(baseRow, 6, 7)>> ELSE <<>>
        queenside ==
            IF /\ ~queensideRookMoved
               /\ b[baseRow][1] = null
               /\ b[baseRow][2] = null
               /\ b[baseRow][3] = null
               /\ b[baseRow][0] # null
               /\ ~isSquareUnderAttack(b, baseRow, 2, isWhite)
               /\ ~isSquareUnderAttack(b, baseRow, 3, isWhite)
            THEN <<CastlingMv(baseRow, 2, 0)>> ELSE <<>>
    IN  IF isKingInCheck(b, isWhite) THEN <<>>
        ELSE IF kingMoved THEN <<>>
        ELSE kingside \o queenside

getCastlingMoves(b, hm, row, col, isWhite) ==
    LET kingMoved == IF isWhite THEN hm.whiteKing ELSE hm.blackKing
        baseRow == IF isWhite THEN 7 ELSE 0
        kingsideRookMoved == IF isWhite THEN hm.whiteRookRight ELSE hm.blackRookRight
        queensideRookMoved == IF isWhite THEN hm.whiteRookLeft ELSE hm.blackRookLeft
        kingside ==
            IF /\ ~kingsideRookMoved
               /\ b[baseRow][5] = null
               /\ b[baseRow][6] = null
               /\ b[baseRow][7] # null
               /\ toLowerCase(b[baseRow][7]) = "r"
               /\ ~isSquareUnderAttack(b, baseRow, 5, isWhite)
               /\ ~isSquareUnderAttack(b, baseRow, 6, isWhite)
            THEN <<CastlingMv(baseRow, 6, 7)>> ELSE <<>>
        queenside ==
            IF /\ ~queensideRookMoved
               /\ b[baseRow][1] = null
               /\ b[baseRow][2] = null
               /\ b[baseRow][3] = null
               /\ b[baseRow][0] # null
               /\ toLowerCase(b[baseRow][0]) = "r"
               /\ ~isSquareUnderAttack(b, baseRow, 2, isWhite)
               /\ ~isSquareUnderAttack(b, baseRow, 3, isWhite)
            THEN <<CastlingMv(baseRow, 2, 0)>> ELSE <<>>
    IN  IF isKingInCheck(b, isWhite) THEN <<>>
        ELSE IF kingMoved THEN <<>>
        ELSE kingside \o queenside

getKingMoves(b, hm, row, col) ==
    LET piece == b[row][col]
        isWhite == piece = toUpperCase(piece)
    IN  StepMoves(b, row, col,
            << <<-1, -1>>, <<-1, 0>>, <<-1, 1>>,
               <<0, -1>>, <<0, 1>>,
               <<1, -1>>, <<1, 0>>, <<1, 1>> >>)
        \o getCastlingMoves(b, hm, row, col, isWhite)

\* wouldBeInCheck testing the board as it stands, the move not simulated.
wouldBeInCheck_notSimulated(b, fromRow, fromCol, toRow, toCol) ==
    LET piece == b[fromRow][fromCol]
        isWhite == piece = toUpperCase(piece)
    IN  isKingInCheck(b, isWhite)

\* Simulate the move on a copy of the board and test the mover's king; the
\* undo of the source is the board argument b itself, which is not changed.
wouldBeInCheck(b, fromRow, fromCol, toRow, toCol) ==
    LET piece == b[fromRow][fromCol]
        b1 == [b EXCEPT ![toRow][toCol] = piece]
        b2 == [b1 EXCEPT ![fromRow][fromCol] = null]
        isWhite == piece = toUpperCase(piece)
    IN  isKingInCheck(b2, isWhite)

\* getValidMoves without the self-check filter.
getValidMoves_unfiltered(b, hm, row, col) ==
    LET piece == b[row][col]
        pieceType == toLowerCase(piece)
    IN  IF piece = null THEN <<>>
        ELSE CASE pieceType = "p" -> getPawnMoves(b, row, col)
               [] pieceType = "r" -> getRookMoves(b, row, col)
               [] pieceType = "n" -> getKnightMoves(b, row, col)
               [] pieceType = "b" -> getBishopMoves(b, row, col)
               [] pieceType = "q" -> getQueenMoves(b, row, col)
               [] pieceType = "k" -> getKingMoves(b, hm, row, col)
               [] OTHER -> <<>>

getValidMoves(b, hm, row, col) ==
    LET piece == b[row][col]
        pieceType == toLowerCase(piece)
        moves == CASE pieceType = "p" -> getPawnMoves(b, row, col)
                   [] pieceType = "r" -> getRookMoves(b, row, col)
                   [] pieceType = "n" -> getKnightMoves(b, row, col)
                   [] pieceType = "b" -> getBishopMoves(b, row, col)
                   [] pieceType = "q" -> getQueenMoves(b, row, col)
                   [] pieceType = "k" -> getKingMoves(b, hm, row, col)
                   [] OTHER -> <<>>
        keep(move) == ~wouldBeInCheck(b, row, col, move.row, move.col)
    IN  IF piece = null THEN <<>>
        ELSE SelectSeq(moves, keep)

\* The undo of wouldBeInCheck clearing the destination square.
wouldBeInCheckBoard_captureLost(b, fromRow, fromCol, toRow, toCol) ==
    LET piece == b[fromRow][fromCol]
        b1 == [b EXCEPT ![toRow][toCol] = piece]
        b2 == [b1 EXCEPT ![fromRow][fromCol] = null]
        b3 == [b2 EXCEPT ![fromRow][fromCol] = piece]
    IN  [b3 EXCEPT ![toRow][toCol] = null]

\* this.board as wouldBeInCheck leaves it: the four assignments of the
\* simulation and of its undo, in order.
wouldBeInCheckBoard(b, fromRow, fromCol, toRow, toCol) ==
    LET piece == b[fromRow][fromCol]
        capturedPiece == b[toRow][toCol]
        b1 == [b EXCEPT ![toRow][toCol] = piece]
        b2 == [b1 EXCEPT ![fromRow][fromCol] = null]
        b3 == [b2 EXCEPT ![fromRow][fromCol] = piece]
    IN  [b3 EXCEPT ![toRow][toCol] = capturedPiece]

\* this.board after moves.filter(...) has called wouldBeInCheck on each move.
RECURSIVE filterBoard(_, _, _, _)
filterBoard(b, row, col, moves) ==
    IF moves = <<>> THEN b
    ELSE filterBoard(wouldBeInCheckBoard(b, row, col, Head(moves).row, Head(moves).col),
                     row, col, Tail(moves))

\* this.board as getValidMoves leaves it.
getValidMovesBoard(b, hm, row, col) ==
    LET piece == b[row][col]
        pieceType == toLowerCase(piece)
        moves == CASE pieceType = "p" -> getPawnMoves(b, row, col)
                   [] pieceType = "r" -> getRookMoves(b, row, col)
                   [] pieceType = "n" -> getKnightMoves(b, row, col)
                   [] pieceType = "b" -> getBishopMoves(b, row, col)
                   [] pieceType = "q" -> getQueenMoves(b, row, col)
                   [] pieceType = "k" -> getKingMoves(b, hm, row, col)
                   [] OTHER -> <<>>
    IN  IF piece = null THEN b
        ELSE filterBoard(b, row, col, moves)

\* isPieceOwnedByCurrentPlayer accepting a piece of either colour.
isPieceOwnedByCurrentPlayer_anyPiece(b, turn, row, col) ==
    b[row][col] # null

isPieceOwnedByCurrentPlayer(b, turn, row, col) ==
    LET piece == b[row][col]
    IN  IF piece = null THEN FALSE
        ELSE \/ turn = "white" /\ piece = toUpperCase(piece)
             \/ turn = "black" /\ piece = toLowerCase(piece)

\* The castling branch of movePiece: the board after king and rook have moved.
castlingBoard_rookStays(b, fromRow, fromCol, toRow, toCol, move) ==
    LET piece == b[fromRow][fromCol]
        c1 == [b EXCEPT ![toRow][toCol] = piece]
        c2 == [c1 EXCEPT ![fromRow][fromCol] = null]
        rookFromCol == move.rookCol
        rookToCol == IF toCol = 6 THEN 5 ELSE 3
        rook == c2[toRow][rookFromCol]
    IN  [c2 EXCEPT ![toRow][rookToCol] = rook]

castlingBoard(b, fromRow, fromCol, toRow, toCol, move) ==
    LET piece == b[fromRow][fromCol]
        c1 == [b EXCEPT ![toRow][toCol] = piece]
        c2 == [c1 EXCEPT ![fromRow][fromCol] = null]
        rookFromCol == move.rookCol
        rookToCol == IF toCol = 6 THEN 5 ELSE 3
        rook == c2[toRow][rookFromCol]
        c3 == [c2 EXCEPT ![toRow][rookToCol] = rook]
    IN  [c3 EXCEPT ![toRow][rookFromCol] = null]

\* The capture of the ordinary branch pushing onto the list of the mover's colour.
captureList_moverColor(b, cp, fromRow, fromCol, toRow, toCol) ==
    LET piece == b[fromRow][fromCol]
        capturedPiece == b[toRow][toCol]
        capturedColor == IF piece = toUpperCase(piece) THEN "white" ELSE "black"
    IN  IF capturedPiece # null
        THEN [cp EXCEPT ![capturedColor] = Append(@, capturedPiece)]
        ELSE cp

\* The capture of the ordinary branch of movePiece: the new capture lists.
captureList(b, cp, fromRow, fromCol, toRow, toCol) ==
    LET capturedPiece == b[toRow][toCol]
        capturedColor == IF capturedPiece = toUpperCase(capturedPiece)
                         THEN "white" ELSE "black"
    IN  IF capturedPiece # null
        THEN [cp EXCEPT ![capturedColor] = Append(@, capturedPiece)]
        ELSE cp

\* The ordinary branch without the promotion.
ordinaryBoard_noPromotion(b, fromRow, fromCol, toRow, toCol) ==
    LET piece == b[fromRow][fromCol]
        o1 == [b EXCEPT ![toRow][toCol] = piece]
    IN  [o1 EXCEPT ![fromRow][fromCol] = null]

\* The ordinary branch of movePiece: the board after the move and the promotion.
ordinaryBoard(b, fromRow, fromCol, toRow, toCol) ==
    LET piece == b[fromRow][fromCol]
        o1 == [b EXCEPT ![toRow][toCol] = piece]
        o2 == [o1 EXCEPT ![fromRow][fromCol] = null]
    IN  IF toLowerCase(piece) = "p"
           /\ ((piece = "P" /\ toRow = 0) \/ (piece = "p" /\ toRow = 7))
        THEN [o2 EXCEPT ![toRow][toCol] = IF piece = "P" THEN "Q" ELSE "q"]
        ELSE o2

\* The rook flags set by any origin column but the other corner's.
trackHasMoved_anyColumn(hm, piece, fromCol) ==
    LET isWhite == piece = toUpperCase(piece)
    IN  IF toLowerCase(piece) = "k"
        THEN IF isWhite THEN [hm EXCEPT !.whiteKing = TRUE]
                        ELSE [hm EXCEPT !.blackKing = TRUE]
        ELSE IF toLowerCase(piece) = "r"
        THEN IF isWhite
             THEN [hm EXCEPT !.whiteRookLeft = IF fromCol # 7 THEN TRUE ELSE @,
                             !.whiteRookRight = IF fromCol # 0 THEN TRUE ELSE @]
             ELSE [hm EXCEPT !.blackRookLeft = IF fromCol # 7 THEN TRUE ELSE @,
                             !.blackRookRight = IF fromCol # 0 THEN TRUE ELSE @]
        ELSE hm

\* The tracking of piece movements at the end of movePiece: the new flags.
trackHasMoved(hm, piece, fromCol) ==
    LET isWhite == piece = toUpperCase(piece)
    IN  IF toLowerCase(piece) = "k"
        THEN IF isWhite THEN [hm EXCEPT !.whiteKing = TRUE]
                        ELSE [hm EXCEPT !.blackKing = TRUE]
        ELSE IF toLowerCase(piece) = "r"
        THEN IF isWhite
             THEN [hm EXCEPT !.whiteRookLeft = IF fromCol = 0 THEN TRUE ELSE @,
                             !.whiteRookRight = IF fromCol = 7 THEN TRUE ELSE @]
             ELSE [hm EXCEPT !.blackRookLeft = IF fromCol = 0 THEN TRUE ELSE @,
                             !.blackRookRight = IF fromCol = 7 THEN TRUE ELSE @]
        ELSE hm

\* movePiece not tracking the move of a king.
movePiece_kingNotTracked(b, cp, hm, fromRow, fromCol, toRow, toCol, move) ==
    LET piece == b[fromRow][fromCol]
        flags == IF toLowerCase(piece) = "k" THEN hm
                 ELSE trackHasMoved(hm, piece, fromCol)
    IN  IF IsCastling(move)
        THEN [board |-> castlingBoard(b, fromRow, fromCol, toRow, toCol, move),
              capturedPieces |-> cp,
              hasMoved |-> flags]
        ELSE [board |-> ordinaryBoard(b, fromRow, fromCol, toRow, toCol),
              capturedPieces |-> captureList(b, cp, fromRow, fromCol, toRow, toCol),
              hasMoved |-> flags]

\* movePiece: the new board, capture lists and hasMoved flags.
movePiece(b, cp, hm, fromRow, fromCol, toRow, toCol, move) ==
    LET piece == b[fromRow][fromCol]
    IN  IF IsCastling(move)
        THEN [board |-> castlingBoard(b, fromRow, fromCol, toRow, toCol, move),
              capturedPieces |-> cp,
              hasMoved |-> trackHasMoved(hm, piece, fromCol)]
        ELSE [board |-> ordinaryBoard(b, fromRow, fromCol, toRow, toCol),
              capturedPieces |-> captureList(b, cp, fromRow, fromCol, toRow, toCol),
              hasMoved |-> trackHasMoved(hm, piece, fromCol)]

hasAnyValidMoves(b, hm, turn) ==
    \E row \in Rows : \E col \in Cols :
        /\ isPieceOwnedByCurrentPlayer(b, turn, row, col)
        /\ Len(getValidMoves(b, hm, row, col)) > 0

\* checkGameStatus looking at the side that has just moved.
checkGameStatus_beforeSwitch(b, hm, turn, over) ==
    LET mover == IF turn = "white" THEN "black" ELSE "white"
        hasValidMoves == hasAnyValidMoves(b, hm, mover)
        inCheck == isKingInCheck(b, mover = "white")
    IN  IF ~hasValidMoves
        THEN IF inCheck
             THEN [gameOver |-> TRUE,
                   gameStatus |-> IF mover = "white" THEN "Checkmate! Black wins!"
                                                     ELSE "Checkmate! White wins!"]
             ELSE [gameOver |-> TRUE, gameStatus |-> "Stalemate! Game is a draw."]
        ELSE IF inCheck THEN [gameOver |-> over, gameStatus |-> "Check!"]
        ELSE [gameOver |-> over, gameStatus |-> ""]

\* checkGameStatus: the new gameOver flag and the text of #game-status.
checkGameStatus(b, hm, turn, over) ==
    LET hasValidMoves == hasAnyValidMoves(b, hm, turn)
        inCheck == isKingInCheck(b, turn = "white")
    IN  IF ~hasValidMoves
        THEN IF inCheck
             THEN [gameOver |-> TRUE,
                   gameStatus |-> IF turn = "white" THEN "Checkmate! Black wins!"
                                                    ELSE "Checkmate! White wins!"]
             ELSE [gameOver |-> TRUE, gameStatus |-> "Stalemate! Game is a draw."]
        ELSE IF inCheck THEN [gameOver |-> over, gameStatus |-> "Check!"]
        ELSE [gameOver |-> over, gameStatus |-> ""]

(***************************************************************************)
(* State.  selectedSquare = NoSquare stands for null.  moveCount,          *)
(* lastMove and unmoved are history variables: the number of committed     *)
(* moves since the last reset, the last committed move (or the mark of a   *)
(* reset with no move after it), and the squares                           *)
(* whose piece of the initial position has neither moved nor been captured.*)
(* scenario names the family of clicks the player draws from.              *)
(***************************************************************************)
NoSquare == [row |-> -1, col |-> -1]

NoMove == [fromRow |-> -1, fromCol |-> -1, toRow |-> -1, toCol |-> -1,
           piece |-> null, captured |-> null, isCastling |-> FALSE,
           reset |-> FALSE]

\* lastMove right after resetGame.
ResetMove == [NoMove EXCEPT !.reset = TRUE]

InitialSquares == {p \in Rows \X Cols : INITIAL_BOARD[p[1]][p[2]] # null}

\* The longest game played.
MaxMoves == 19

\* The squares the player clicks at each ply of each scenario.
Scenarios ==
    <<
      \* 1: fool's mate and its neighbours
      <<
        {<<6, 5>>, <<5, 5>>, <<4, 5>>},  \* 1. f3 / f4
        {<<1, 4>>, <<3, 4>>, <<2, 4>>},  \* 1... e5 / e6
        {<<6, 6>>, <<4, 6>>, <<5, 6>>},  \* 2. g4 / g3
        {<<0, 3>>, <<4, 7>>},  \* 2... Qh4
        {<<6, 0>>, <<5, 0>>, <<5, 6>>, <<4, 7>>},  \* 3. a3 / gxh4
        {<<4, 7>>, <<7, 4>>, <<1, 0>>, <<2, 0>>}  \* 3... a6 (the queen cannot take on e1)
      >>,
      \* 2: kingside castling, a black pawn reaching e2, promotion
      <<
        {<<6, 6>>, <<5, 6>>},  \* 1. g3
        {<<1, 3>>, <<3, 3>>},  \* 1... d5
        {<<7, 5>>, <<6, 6>>},  \* 2. Bg2
        {<<3, 3>>, <<4, 3>>},  \* 2... d4
        {<<7, 6>>, <<5, 5>>},  \* 3. Nf3
        {<<4, 3>>, <<5, 3>>},  \* 3... d3
        {<<7, 4>>, <<7, 6>>, <<6, 0>>, <<5, 0>>, <<6, 4>>, <<5, 3>>},  \* 4. O-O / a3 / exd3
        {<<5, 3>>, <<6, 4>>, <<1, 0>>, <<2, 0>>, <<0, 3>>},  \* 4... dxe2 / a6 / Qxd3
        {<<7, 4>>, <<7, 6>>, <<6, 0>>, <<5, 0>>, <<7, 3>>, <<6, 4>>, <<6, 2>>, <<5, 3>>},  \* 5. O-O / a3 / Qxe2 / cxd3
        {<<6, 4>>, <<7, 3>>, <<7, 5>>, <<1, 0>>, <<2, 0>>, <<5, 3>>, <<6, 3>>},  \* 5... exd1=Q / exf1=Q / a6 / Qxd2
        {<<7, 5>>, <<7, 3>>, <<7, 4>>, <<7, 6>>, <<6, 6>>, <<6, 3>>}  \* 6. Rxd1 / Kxd1 / Kxf1 / Bxf1 / Kxd2
      >>,
      \* 3: the a1 rook replaces the captured h1 rook
      <<
        {<<6, 0>>, <<4, 0>>},  \* 1. a4
        {<<1, 1>>, <<2, 1>>},  \* 1... b6
        {<<7, 0>>, <<5, 0>>},  \* 2. Ra3
        {<<0, 2>>, <<1, 1>>},  \* 2... Bb7
        {<<5, 0>>, <<5, 6>>},  \* 3. Rg3
        {<<1, 1>>, <<6, 6>>},  \* 3... Bxg2
        {<<7, 6>>, <<5, 5>>},  \* 4. Nf3
        {<<6, 6>>, <<7, 7>>},  \* 4... Bxh1
        {<<5, 6>>, <<7, 6>>, <<7, 5>>, <<5, 7>>},  \* 5. Rg1 / Bh3
        {<<1, 0>>, <<2, 0>>},  \* 5... a6
        {<<7, 6>>, <<7, 7>>},  \* 6. Rxh1
        {<<2, 0>>, <<3, 0>>},  \* 6... a5
        {<<7, 5>>, <<6, 6>>},  \* 7. Bg2
        {<<1, 7>>, <<2, 7>>},  \* 7... h6
        {<<7, 4>>, <<7, 6>>}  \* 8. O-O
      >>,
      \* 4: the ten-move stalemate
      <<
        {<<6, 4>>, <<5, 4>>},  \* 1. e3
        {<<1, 0>>, <<3, 0>>},  \* 1... a5
        {<<7, 3>>, <<3, 7>>},  \* 2. Qh5
        {<<0, 0>>, <<2, 0>>},  \* 2... Ra6
        {<<3, 7>>, <<3, 0>>},  \* 3. Qxa5
        {<<1, 7>>, <<3, 7>>},  \* 3... h5
        {<<6, 7>>, <<4, 7>>},  \* 4. h4
        {<<2, 0>>, <<2, 7>>},  \* 4... Rah6
        {<<3, 0>>, <<1, 2>>},  \* 5. Qxc7
        {<<1, 5>>, <<2, 5>>},  \* 5... f6
        {<<1, 2>>, <<1, 3>>},  \* 6. Qxd7+
        {<<0, 4>>, <<1, 5>>},  \* 6... Kf7
        {<<1, 3>>, <<1, 1>>},  \* 7. Qxb7
        {<<0, 3>>, <<5, 3>>},  \* 7... Qd3
        {<<1, 1>>, <<0, 1>>},  \* 8. Qxb8
        {<<5, 3>>, <<1, 7>>},  \* 8... Qh7
        {<<0, 1>>, <<0, 2>>},  \* 9. Qxc8
        {<<1, 5>>, <<2, 6>>},  \* 9... Kg6
        {<<0, 2>>, <<2, 4>>}  \* 10. Qe6
      >>,
      \* 5: both sides castle queenside
      <<
        {<<6, 3>>, <<4, 3>>},  \* 1. d4
        {<<1, 3>>, <<3, 3>>},  \* 1... d5
        {<<7, 2>>, <<4, 5>>},  \* 2. Bf4
        {<<0, 2>>, <<3, 5>>},  \* 2... Bf5
        {<<7, 3>>, <<5, 3>>},  \* 3. Qd3
        {<<0, 3>>, <<2, 3>>},  \* 3... Qd6
        {<<7, 1>>, <<5, 2>>},  \* 4. Nc3
        {<<0, 1>>, <<2, 2>>},  \* 4... Nc6
        {<<7, 4>>, <<7, 2>>, <<6, 3>>},  \* 5. O-O-O / Kd2
        {<<0, 4>>, <<0, 2>>, <<1, 3>>},  \* 5... O-O-O / Kd7
        {<<7, 2>>, <<7, 1>>, <<7, 3>>, <<6, 3>>}  \* 6. Kb1 / Rd2
      >>,
      \* 6: an open centre
      <<
        {<<6, 4>>, <<4, 4>>, <<6, 3>>, <<4, 3>>, <<7, 6>>, <<5, 5>>, <<3, 4>>, <<3, 3>>},  \* 1. e4 / d4 / Nf3
        {<<1, 4>>, <<3, 4>>, <<1, 3>>, <<3, 3>>, <<0, 1>>, <<2, 2>>, <<4, 4>>, <<4, 3>>},  \* 1... e5 / d5 / Nc6
        {<<6, 4>>, <<4, 4>>, <<6, 3>>, <<4, 3>>, <<7, 6>>, <<5, 5>>, <<3, 4>>, <<3, 3>>},  \* 2. e4 / d4 / Nf3 or a capture
        {<<1, 4>>, <<3, 4>>, <<1, 3>>, <<3, 3>>, <<0, 1>>, <<2, 2>>, <<4, 4>>, <<4, 3>>},  \* 2... e5 / d5 / Nc6 or a capture
        {<<6, 4>>, <<4, 4>>, <<6, 3>>, <<4, 3>>, <<7, 6>>, <<5, 5>>, <<3, 4>>, <<3, 3>>},  \* 3. e4 / d4 / Nf3 or a capture
        {<<1, 0>>, <<2, 0>>}  \* 3... a6
      >>,
      \* 7: a white pawn promotes on g8
      <<
        {<<6, 7>>, <<4, 7>>},  \* 1. h4
        {<<1, 6>>, <<3, 6>>},  \* 1... g5
        {<<4, 7>>, <<3, 6>>},  \* 2. hxg5
        {<<1, 7>>, <<2, 7>>},  \* 2... h6
        {<<3, 6>>, <<2, 7>>},  \* 3. gxh6
        {<<1, 0>>, <<2, 0>>},  \* 3... a6
        {<<2, 7>>, <<1, 7>>},  \* 4. h7
        {<<2, 0>>, <<3, 0>>},  \* 4... a5
        {<<1, 7>>, <<0, 6>>},  \* 5. hxg8=Q
        {<<0, 7>>, <<0, 6>>}  \* 5... Rxg8
      >>,
      \* 8: a black rook takes the unmoved h1 rook
      <<
        {<<6, 7>>, <<4, 7>>},  \* 1. h4
        {<<1, 6>>, <<3, 6>>},  \* 1... g5
        {<<4, 7>>, <<3, 6>>},  \* 2. hxg5
        {<<1, 7>>, <<2, 7>>},  \* 2... h6
        {<<3, 6>>, <<2, 7>>},  \* 3. gxh6
        {<<0, 7>>, <<2, 7>>},  \* 3... Rxh6
        {<<7, 6>>, <<5, 5>>},  \* 4. Nf3
        {<<1, 0>>, <<2, 0>>},  \* 4... a6
        {<<6, 6>>, <<5, 6>>},  \* 5. g3
        {<<2, 0>>, <<3, 0>>},  \* 5... a5
        {<<7, 5>>, <<6, 6>>},  \* 6. Bg2
        {<<2, 7>>, <<7, 7>>},  \* 6... Rxh1+
        {<<6, 6>>, <<7, 7>>, <<7, 5>>, <<7, 4>>, <<7, 6>>}  \* 7. Bxh1 / Bf1 / no O-O
      >>
    >>

ScenarioIds == DOMAIN Scenarios

ClickSquares(s, n) ==
    IF n <= Len(Scenarios[s]) THEN Scenarios[s][n]
    ELSE Scenarios[s][Len(Scenarios[s])]

Init ==
    /\ board = INITIAL_BOARD
    /\ currentTurn = "white"
    /\ selectedSquare = NoSquare
    /\ validMoves = <<>>
    /\ capturedPieces = [white |-> <<>>, black |-> <<>>]
    /\ gameOver = FALSE
    /\ hasMoved = [whiteKing |-> FALSE, blackKing |-> FALSE,
                   whiteRookLeft |-> FALSE, whiteRookRight |-> FALSE,
                   blackRookLeft |-> FALSE, blackRookRight |-> FALSE]
    /\ gameStatus = ""
    /\ moveCount = 0
    /\ lastMove = NoMove
    /\ unmoved = InitialSquares
    /\ scenario \in ScenarioIds

selectSquare(row, col) ==
    /\ selectedSquare' = [row |-> row, col |-> col]
    /\ validMoves' = getValidMoves(board, hasMoved, row, col)

clearSelection ==
    /\ selectedSquare' = NoSquare
    /\ validMoves' = <<>>

\* validMoves.find(m => m.row === row && m.col === col): index of the first match, 0 if none
\* validMoves.find matching the row alone.
FindMove_rowOnly(moves, row, col) ==
    LET hits == {i \in DOMAIN moves : moves[i].row = row}
    IN  IF hits = {} THEN 0 ELSE CHOOSE i \in hits : \A j \in hits : i <= j

FindMove(moves, row, col) ==
    LET hits == {i \in DOMAIN moves : moves[i].row = row /\ moves[i].col = col}
    IN  IF hits = {} THEN 0 ELSE CHOOSE i \in hits : \A j \in hits : i <= j

\* switchTurn with the turn left as it is.
switchTurn_stays(turn) == turn

\* The side to move after switchTurn.
switchTurn(turn) == IF turn = "white" THEN "black" ELSE "white"

\* The move branch leaving the capture lists as they are.
CommitMove_capturesKept(row, col, move) ==
    LET after == movePiece(board, capturedPieces, hasMoved,
                           selectedSquare.row, selectedSquare.col, row, col, move)
        turn == switchTurn(currentTurn)
        status == checkGameStatus(after.board, after.hasMoved, turn, gameOver)
    IN  /\ moveCount < MaxMoves
        /\ board' = after.board
        /\ capturedPieces' = capturedPieces
        /\ hasMoved' = after.hasMoved
        /\ clearSelection
        /\ currentTurn' = turn
        /\ gameOver' = status.gameOver
        /\ gameStatus' = status.gameStatus
        /\ moveCount' = moveCount + 1
        /\ lastMove' = [fromRow |-> selectedSquare.row, fromCol |-> selectedSquare.col,
                        toRow |-> row, toCol |-> col,
                        piece |-> board[selectedSquare.row][selectedSquare.col],
                        captured |-> board[row][col],
                        isCastling |-> IsCastling(move),
                        reset |-> FALSE]
        /\ unmoved' = unmoved \ ({<<selectedSquare.row, selectedSquare.col>>, <<row, col>>}
                                    \cup IF IsCastling(move)
                                         THEN {<<row, move.rookCol>>} ELSE {})
        /\ UNCHANGED scenario

\* movePiece, clearSelection and switchTurn of the move branch.
CommitMove(row, col, move) ==
    LET after == movePiece(board, capturedPieces, hasMoved,
                           selectedSquare.row, selectedSquare.col, row, col, move)
        turn == switchTurn(currentTurn)
        status == checkGameStatus(after.board, after.hasMoved, turn, gameOver)
    IN  /\ moveCount < MaxMoves
        /\ board' = after.board
        /\ capturedPieces' = after.capturedPieces
        /\ hasMoved' = after.hasMoved
        /\ clearSelection
        /\ currentTurn' = turn
        /\ gameOver' = status.gameOver
        /\ gameStatus' = status.gameStatus
        /\ moveCount' = moveCount + 1
        /\ lastMove' = [fromRow |-> selectedSquare.row, fromCol |-> selectedSquare.col,
                        toRow |-> row, toCol |-> col,
                        piece |-> board[selectedSquare.row][selectedSquare.col],
                        captured |-> board[row][col],
                        isCastling |-> IsCastling(move),
                        reset |-> FALSE]
        /\ unmoved' = unmoved \ ({<<selectedSquare.row, selectedSquare.col>>, <<row, col>>}
                                    \cup IF IsCastling(move)
                                         THEN {<<row, move.rookCol>>} ELSE {})
        /\ UNCHANGED scenario

\* handleSquareClick without the early return on gameOver.
handleSquareClick_noGameOverGuard(row, col) ==
    IF selectedSquare # NoSquare
    THEN LET i == FindMove(validMoves, row, col)
         IN  IF i # 0 THEN CommitMove(row, col, validMoves[i])
             ELSE IF isPieceOwnedByCurrentPlayer(board, currentTurn, row, col)
             THEN /\ selectSquare(row, col)
                  /\ UNCHANGED <<board, currentTurn, capturedPieces, gameOver,
                                 hasMoved, gameStatus, moveCount, lastMove,
                                 unmoved, scenario>>
             ELSE /\ clearSelection
                  /\ UNCHANGED <<board, currentTurn, capturedPieces, gameOver,
                                 hasMoved, gameStatus, moveCount, lastMove,
                                 unmoved, scenario>>
    ELSE IF isPieceOwnedByCurrentPlayer(board, currentTurn, row, col)
         THEN /\ selectSquare(row, col)
              /\ UNCHANGED <<board, currentTurn, capturedPieces, gameOver,
                             hasMoved, gameStatus, moveCount, lastMove,
                                 unmoved, scenario>>
         ELSE UNCHANGED vars

handleSquareClick(row, col) ==
    IF gameOver THEN UNCHANGED vars
    ELSE IF selectedSquare # NoSquare
    THEN LET i == FindMove(validMoves, row, col)
         IN  IF i # 0 THEN CommitMove(row, col, validMoves[i])
             ELSE IF isPieceOwnedByCurrentPlayer(board, currentTurn, row, col)
             THEN /\ selectSquare(row, col)
                  /\ UNCHANGED <<board, currentTurn, capturedPieces, gameOver,
                                 hasMoved, gameStatus, moveCount, lastMove,
                                 unmoved, scenario>>
             ELSE /\ clearSelection
                  /\ UNCHANGED <<board, currentTurn, capturedPieces, gameOver,
                                 hasMoved, gameStatus, moveCount, lastMove,
                                 unmoved, scenario>>
    ELSE IF isPieceOwnedByCurrentPlayer(board, currentTurn, row, col)
         THEN /\ selectSquare(row, col)
              /\ UNCHANGED <<board, currentTurn, capturedPieces, gameOver,
                             hasMoved, gameStatus, moveCount, lastMove,
                                 unmoved, scenario>>
         ELSE UNCHANGED vars

\* resetGame leaving the hasMoved flags as they are.
resetGame_keepsFlags ==
    /\ board' = INITIAL_BOARD
    /\ currentTurn' = "white"
    /\ selectedSquare' = NoSquare
    /\ validMoves' = <<>>
    /\ capturedPieces' = [white |-> <<>>, black |-> <<>>]
    /\ gameOver' = FALSE
    /\ UNCHANGED hasMoved
    /\ gameStatus' = ""
    /\ unmoved' = InitialSquares
    /\ scenario' \in ScenarioIds
    /\ moveCount' = 0
    /\ lastMove' = ResetMove

resetGame ==
    /\ board' = INITIAL_BOARD
    /\ currentTurn' = "white"
    /\ selectedSquare' = NoSquare
    /\ validMoves' = <<>>
    /\ capturedPieces' = [white |-> <<>>, black |-> <<>>]
    /\ gameOver' = FALSE
    /\ hasMoved' = [whiteKing |-> FALSE, blackKing |-> FALSE,
                    whiteRookLeft |-> FALSE, whiteRookRight |-> FALSE,
                    blackRookLeft |-> FALSE, blackRookRight |-> FALSE]
    /\ gameStatus' = ""
    /\ unmoved' = InitialSquares
    /\ scenario' \in ScenarioIds
    /\ moveCount' = 0
    /\ lastMove' = ResetMove

Click == \E sq \in ClickSquares(scenario, moveCount + 1) : handleSquareClick(sq[1], sq[2])

Next == Click \/ resetGame

Spec == Init /\ [][Next]_vars

(***************************************************************************)
(* The rules of chess the properties are stated against: which squares a   *)
(* side attacks, read off the board square by square (not through the move *)
(* generators above).                                                      *)
(***************************************************************************)
PieceAt(b, row, col) == IF isInBounds(row, col) THEN b[row][col] ELSE null

RECURSIVE FirstOnRay(_, _, _, _, _)
FirstOnRay(b, row, col, dr, dc) ==
    IF ~isInBounds(row + dr, col + dc) THEN null
    ELSE IF b[row + dr][col + dc] # null THEN b[row + dr][col + dc]
    ELSE FirstOnRay(b, row + dr, col + dc, dr, dc)

Orthogonals == {<<-1, 0>>, <<1, 0>>, <<0, -1>>, <<0, 1>>}
Diagonals == {<<-1, -1>>, <<-1, 1>>, <<1, -1>>, <<1, 1>>}
KnightJumps == {<<-2, -1>>, <<-2, 1>>, <<-1, -2>>, <<-1, 2>>,
                <<1, -2>>, <<1, 2>>, <<2, -1>>, <<2, 1>>}

\* A piece of the given colour could capture on (row, col).
Attacked(b, row, col, byWhite) ==
    LET of(k) == IF byWhite THEN toUpperCase(k) ELSE k
        pawnRow == IF byWhite THEN row + 1 ELSE row - 1
    IN  \/ PieceAt(b, pawnRow, col - 1) = of("p")
        \/ PieceAt(b, pawnRow, col + 1) = of("p")
        \/ \E d \in KnightJumps : PieceAt(b, row + d[1], col + d[2]) = of("n")
        \/ \E d \in Orthogonals \cup Diagonals :
               PieceAt(b, row + d[1], col + d[2]) = of("k")
        \/ \E d \in Orthogonals : FirstOnRay(b, row, col, d[1], d[2]) \in {of("r"), of("q")}
        \/ \E d \in Diagonals : FirstOnRay(b, row, col, d[1], d[2]) \in {of("b"), of("q")}

SquaresOf(b, piece) == {p \in Rows \X Cols : b[p[1]][p[2]] = piece}

KingOf(white) == IF white THEN "K" ELSE "k"

\* Some king of the colour stands on a square the other colour attacks.
KingAttacked(b, white) ==
    \E p \in SquaresOf(b, KingOf(white)) : Attacked(b, p[1], p[2], ~white)

WhiteToMove == currentTurn = "white"

OwnSquares == {p \in Rows \X Cols :
                  isPieceOwnedByCurrentPlayer(board, currentTurn, p[1], p[2])}

LegalMoves(p) == getValidMoves(board, hasMoved, p[1], p[2])

PseudoLegalMoves(p) ==
    IF toLowerCase(board[p[1]][p[2]]) = "k"
    THEN getKingMoves(board, hasMoved, p[1], p[2])
    ELSE getValidMovesWithoutCheckValidation(board, p[1], p[2])

BoardAfter(p, move) ==
    movePiece(board, capturedPieces, hasMoved, p[1], p[2], move.row, move.col, move).board

(***************************************************************************)
(* C1  Self-check filtering: the king of the side that has just moved is   *)
(* never attacked, and no move getValidMoves returns for a piece of the    *)
(* side to move leaves the mover's own king attacked once movePiece has    *)
(* applied it.                                                             *)
(***************************************************************************)
SelfCheckFiltering ==
    /\ ~KingAttacked(board, ~WhiteToMove)
    /\ \A p \in OwnSquares :
          LET moves == LegalMoves(p)
          IN  \A i \in DOMAIN moves :
                 ~KingAttacked(BoardAfter(p, moves[i]), WhiteToMove)

\* A move has been committed into a position where the filter removes a
\* candidate of some piece and keeps another.
SelfCheckFilteringWitness ==
    /\ moveCount > 0
    /\ \E p \in OwnSquares : Len(LegalMoves(p)) < Len(PseudoLegalMoves(p))
    /\ \E p \in OwnSquares : Len(LegalMoves(p)) > 0

(***************************************************************************)
(* C2  King invariant: the board always holds exactly one white king and   *)
(* exactly one black king.                                                 *)
(***************************************************************************)
KingInvariant ==
    /\ Cardinality(SquaresOf(board, "K")) = 1
    /\ Cardinality(SquaresOf(board, "k")) = 1

\* Both kings are still there after a king has castled and a piece was captured.
KingInvariantWitness ==
    /\ KingInvariant
    /\ hasMoved.whiteKing
    /\ board[7][4] = null
    /\ Len(capturedPieces.white) > 0

\* The castling moves getValidMoves offers the king of the side to move,
\* each with the square of the king it is offered to.
CastlingOffers ==
    {<<p, m>> \in UNION {{p} \X {LegalMoves(p)[i] : i \in DOMAIN LegalMoves(p)} :
                            p \in SquaresOf(board, KingOf(WhiteToMove))} :
        IsCastling(m)}

(***************************************************************************)
(* C3  Castling requires unmoved king and rook: whenever getValidMoves     *)
(* offers the king of the side to move a castling move, the king has never *)
(* moved and the corner square named by the move holds a rook that has     *)
(* never moved.                                                            *)
(***************************************************************************)
CastlingRequiresUnmoved ==
    \A o \in CastlingOffers :
        /\ o[1] \in unmoved
        /\ <<o[2].row, o[2].rookCol>> \in unmoved
        /\ toLowerCase(board[o[2].row][o[2].rookCol]) = "r"

(***************************************************************************)
(* C4  Castling never passes through attack: a castling move is offered    *)
(* only if the king is not attacked, and neither the square it crosses nor *)
(* its destination square is attacked by an opposing piece (for a pawn,    *)
(* the squares diagonally forward of it).                                  *)
(***************************************************************************)
CastlingNeverThroughAttack ==
    \A o \in CastlingOffers :
        LET m == o[2]
            crossed == IF m.col = 6 THEN 5 ELSE 3
        IN  /\ ~Attacked(board, o[1][1], o[1][2], ~WhiteToMove)
            /\ ~Attacked(board, m.row, crossed, ~WhiteToMove)
            /\ ~Attacked(board, m.row, m.col, ~WhiteToMove)

\* The preconditions of castling towards the corner rookCol, by the rules.
CastlingPreconditions(rookCol) ==
    LET homeRow == IF WhiteToMove THEN 7 ELSE 0
        between == IF rookCol = 7 THEN {5, 6} ELSE {1, 2, 3}
        path == IF rookCol = 7 THEN {4, 5, 6} ELSE {4, 3, 2}
    IN  /\ board[homeRow][4] = KingOf(WhiteToMove)
        /\ <<homeRow, 4>> \in unmoved
        /\ board[homeRow][rookCol] = (IF WhiteToMove THEN "R" ELSE "r")
        /\ <<homeRow, rookCol>> \in unmoved
        /\ \A c \in between : board[homeRow][c] = null
        /\ \A c \in path : ~Attacked(board, homeRow, c, ~WhiteToMove)

Committed == moveCount' = moveCount + 1

ColorOf(piece) == IF piece \in {"K", "Q", "R", "B", "N", "P"} THEN "white" ELSE "black"

(***************************************************************************)
(* C6  Castling application: after a committed castling move the king      *)
(* stands on column 6 or 2 of its home rank, a rook of its colour on       *)
(* column 5 or 3 of that rank, the king's origin and the rook's corner are *)
(* empty, every other square is unchanged and so are both capture lists.   *)
(***************************************************************************)
CastlingStep ==
    (Committed /\ lastMove'.isCastling) =>
        LET king == board[selectedSquare.row][selectedSquare.col]
            white == ColorOf(king) = "white"
            homeRow == IF white THEN 7 ELSE 0
            kingTo == lastMove'.toCol
            rookTo == IF kingTo = 6 THEN 5 ELSE 3
            corner == IF kingTo = 6 THEN 7 ELSE 0
            changed == {<<homeRow, 4>>, <<homeRow, kingTo>>,
                        <<homeRow, rookTo>>, <<homeRow, corner>>}
        IN  /\ king = KingOf(white)
            /\ selectedSquare = [row |-> homeRow, col |-> 4]
            /\ lastMove'.toRow = homeRow
            /\ kingTo \in {2, 6}
            /\ board'[homeRow][kingTo] = king
            /\ board'[homeRow][rookTo] = (IF white THEN "R" ELSE "r")
            /\ board'[homeRow][4] = null
            /\ board'[homeRow][corner] = null
            /\ \A p \in (Rows \X Cols) \ changed : board'[p[1]][p[2]] = board[p[1]][p[2]]
            /\ capturedPieces' = capturedPieces

CastlingApplication == [][CastlingStep]_vars

\* White has just castled queenside.
CastlingApplicationWitness ==
    /\ lastMove.isCastling
    /\ lastMove.piece = "K"
    /\ board[7][2] = "K"
    /\ board[7][3] = "R"

(***************************************************************************)
(* C7  Promotion: a white pawn moved to row 0 or a black pawn moved to     *)
(* row 7 leaves a queen of its colour on the destination square, and no    *)
(* state has a pawn on row 0 or row 7.                                     *)
(***************************************************************************)
NoPawnOnLastRows ==
    \A c \in Cols : /\ board[0][c] \notin {"P", "p"}
                    /\ board[7][c] \notin {"P", "p"}

PromotionStep ==
    Committed =>
        LET piece == board[selectedSquare.row][selectedSquare.col]
            toRow == lastMove'.toRow
            toCol == lastMove'.toCol
        IN  /\ (piece = "P" /\ toRow = 0) => board'[toRow][toCol] = "Q"
            /\ (piece = "p" /\ toRow = 7) => board'[toRow][toCol] = "q"

Promotion == []NoPawnOnLastRows /\ [][PromotionStep]_vars

\* A black pawn has just moved to row 7 and a black queen stands there.
PromotionWitness ==
    /\ lastMove.piece = "p"
    /\ lastMove.toRow = 7
    /\ board[7][lastMove.toCol] = "q"

(***************************************************************************)
(* C8  Capture bookkeeping: a committed move onto a square holding an      *)
(* opposing piece appends that piece to the capture list of its own        *)
(* colour, which grows by one and keeps its earlier entries, the other     *)
(* list unchanged; a committed move onto an empty square changes neither.  *)
(***************************************************************************)
CaptureStep ==
    Committed =>
        LET captured == board[lastMove'.toRow][lastMove'.toCol]
            color == ColorOf(captured)
            other == IF color = "white" THEN "black" ELSE "white"
            old == capturedPieces[color]
            new == capturedPieces'[color]
        IN  IF captured # null
            THEN /\ color # currentTurn
                 /\ Len(new) = Len(old) + 1
                 /\ new[Len(new)] = captured
                 /\ SubSeq(new, 1, Len(old)) = old
                 /\ capturedPieces'[other] = capturedPieces[other]
            ELSE capturedPieces' = capturedPieces

CaptureBookkeeping == [][CaptureStep]_vars

\* A second white piece has just been captured, and a black one before.
CaptureBookkeepingWitness ==
    /\ lastMove.captured # null
    /\ ColorOf(lastMove.captured) = "white"
    /\ Len(capturedPieces.white) >= 2
    /\ capturedPieces.white[Len(capturedPieces.white)] = lastMove.captured
    /\ Len(capturedPieces.black) >= 1

(***************************************************************************)
(* C9  Terminal classification: gameOver holds exactly when the side to    *)
(* move has no legal move for any of its pieces; then the status is        *)
(* checkmate, won by the opponent, if its king is attacked and stalemate   *)
(* if it is not.                                                           *)
(***************************************************************************)
NoLegalMove == \A p \in OwnSquares : Len(LegalMoves(p)) = 0

TerminalClassification ==
    /\ gameOver <=> NoLegalMove
    /\ gameOver =>
          IF KingAttacked(board, WhiteToMove)
          THEN gameStatus = (IF WhiteToMove THEN "Checkmate! Black wins!"
                                            ELSE "Checkmate! White wins!")
          ELSE gameStatus = "Stalemate! Game is a draw."

\* Black, to move, is stalemated.
TerminalClassificationWitness ==
    /\ gameOver
    /\ ~WhiteToMove
    /\ NoLegalMove
    /\ ~KingAttacked(board, FALSE)
    /\ gameStatus = "Stalemate! Game is a draw."

\* The four moves of the fool's mate, as (fromRow, fromCol, toRow, toCol).
FoolsMateMoves ==
    << <<6, 5, 5, 5>>, <<1, 4, 3, 4>>, <<6, 6, 4, 6>>, <<0, 3, 4, 7>> >>

RECURSIVE FoolsMateBoard(_)
FoolsMateBoard(n) ==
    IF n = 0 THEN INITIAL_BOARD
    ELSE LET m == FoolsMateMoves[n]
         IN  ordinaryBoard(FoolsMateBoard(n - 1), m[1], m[2], m[3], m[4])

NoneMoved == [whiteKing |-> FALSE, blackKing |-> FALSE,
              whiteRookLeft |-> FALSE, whiteRookRight |-> FALSE,
              blackRookLeft |-> FALSE, blackRookRight |-> FALSE]

(***************************************************************************)
(* C10  Fool's mate: each of the moves f3, e5, g4, Qh4 is among the valid  *)
(* moves of its piece at its turn, and the state they lead to has gameOver *)
(* true, white to move, the white king in check and no legal white move:   *)
(* checkmate, Black wins.                                                  *)
(***************************************************************************)
FoolsMate ==
    /\ \A n \in 1..4 :
          LET m == FoolsMateMoves[n]
          IN  SomeMoveTo(getValidMoves(FoolsMateBoard(n - 1), NoneMoved, m[1], m[2]),
                         m[3], m[4])
    /\ (moveCount = 4 /\ board = FoolsMateBoard(4)) =>
          /\ gameOver
          /\ currentTurn = "white"
          /\ isKingInCheck(board, TRUE)
          /\ ~hasAnyValidMoves(board, hasMoved, "white")
          /\ gameStatus = "Checkmate! Black wins!"

\* The position after 1. f3 e5 2. g4 Qh4, reached by those four clicked moves.
FoolsMateWitness ==
    /\ scenario = 1
    /\ moveCount = 4
    /\ board = FoolsMateBoard(4)
    /\ lastMove.piece = "q"
    /\ lastMove.toRow = 4 /\ lastMove.toCol = 7

RECURSIVE SumOver(_, _)
SumOver(squares, f) ==
    IF squares = {} THEN 0
    ELSE LET p == CHOOSE q \in squares : TRUE
         IN  f[p] + SumOver(squares \ {p}, f)

(***************************************************************************)
(* C11  Initial legality count: in the state the constructor produces,     *)
(* with white to move, every white pawn and every white knight has exactly *)
(* two legal moves, every other white piece has none, and the legal moves  *)
(* of the white pieces number 20.                                          *)
(***************************************************************************)
InitialLegalityCount ==
    moveCount = 0 =>
        LET count == [p \in OwnSquares |-> Len(LegalMoves(p))]
        IN  /\ board = INITIAL_BOARD
            /\ WhiteToMove
            /\ OwnSquares = {p \in Rows \X Cols : p[1] \in {6, 7}}
            /\ \A p \in OwnSquares :
                  count[p] = IF board[p[1]][p[2]] \in {"P", "N"} THEN 2 ELSE 0
            /\ SumOver(OwnSquares, count) = 20

\* Before any move the knight on g1 is selected and two moves are shown for it.
InitialLegalityCountWitness ==
    /\ moveCount = 0
    /\ ~lastMove.reset
    /\ selectedSquare = [row |-> 7, col |-> 6]
    /\ Len(validMoves) = 2

(***************************************************************************)
(* C12  Pure queries: getValidMoves called on any square of any reached    *)
(* state leaves the board as it was: every simulation of wouldBeInCheck is *)
(* undone on both the origin and the destination square, so the same query *)
(* asked again is asked of the same state.                                 *)
(***************************************************************************)
PureQueries ==
    \A p \in Rows \X Cols :
        getValidMovesBoard(board, hasMoved, p[1], p[2]) = board

\* A piece is selected whose valid moves include a capture: the simulation
\* overwrote an occupied square and the undo put the piece back.
PureQueriesWitness ==
    /\ selectedSquare # NoSquare
    /\ \E i \in DOMAIN validMoves : board[validMoves[i].row][validMoves[i].col] # null
    /\ getValidMovesBoard(board, hasMoved, selectedSquare.row, selectedSquare.col) = board

FlagNames == {"whiteKing", "blackKing", "whiteRookLeft", "whiteRookRight",
              "blackRookLeft", "blackRookRight"}

\* The flag a move of this piece from this column consumes, "" for none.
FlagOf(piece, fromCol) ==
    CASE piece = "K" -> "whiteKing"
      [] piece = "k" -> "blackKing"
      [] piece = "R" /\ fromCol = 0 -> "whiteRookLeft"
      [] piece = "R" /\ fromCol = 7 -> "whiteRookRight"
      [] piece = "r" /\ fromCol = 0 -> "blackRookLeft"
      [] piece = "r" /\ fromCol = 7 -> "blackRookRight"
      [] OTHER -> ""

\* Every step but a reset of a game in which a move was committed.
WithinGame == lastMove' = lastMove \/ Committed

CastlingRightsStep ==
    /\ WithinGame => \A f \in FlagNames : hasMoved[f] => hasMoved'[f]
    /\ Committed =>
          LET flag == FlagOf(board[selectedSquare.row][selectedSquare.col],
                             selectedSquare.col)
          IN  /\ flag # "" => hasMoved'[flag]
              /\ \A f \in FlagNames \ {flag} : hasMoved'[f] = hasMoved[f]

(***************************************************************************)
(* C13  Castling-rights history: between two resets a hasMoved flag only   *)
(* changes from false to true; a committed king move sets its colour's     *)
(* king flag, a committed rook move from column 0 or 7 its colour's left   *)
(* or right rook flag, and every other committed move (a rook from columns *)
(* 1..6 included) leaves all six flags as they were.                       *)
(***************************************************************************)
CastlingRightsHistory == [][CastlingRightsStep]_vars

\* A white rook has just moved from column 6, after the a1 rook had moved,
\* and the right-rook flag is still false.
CastlingRightsHistoryWitness ==
    /\ lastMove.piece = "R"
    /\ lastMove.fromCol = 6
    /\ hasMoved.whiteRookLeft
    /\ ~hasMoved.whiteRookRight

\* The click on sq is a click on a square that is no destination in legal.
UnrequestedClick(legal, sq) ==
    /\ ~SomeMoveTo(legal, sq[1], sq[2])
    /\ handleSquareClick(sq[1], sq[2])

UnrequestedMoveStep ==
    (~gameOver /\ selectedSquare # NoSquare) =>
        LET legal == LegalMoves(<<selectedSquare.row, selectedSquare.col>>)
        IN  \A sq \in ClickSquares(scenario, moveCount + 1) :
                UnrequestedClick(legal, sq) =>
                    /\ UNCHANGED <<board, currentTurn, hasMoved, capturedPieces, gameOver>>
                    /\ ~Committed
                    /\ \/ selectedSquare' = NoSquare /\ validMoves' = <<>>
                       \/ selectedSquare' = [row |-> sq[1], col |-> sq[2]]

(***************************************************************************)
(* C14  Unrequested move rejected: with a piece selected, a click on a     *)
(* square that is no destination of the selected piece's legal moves       *)
(* commits no move: board, side to move, castling flags, capture lists and *)
(* gameOver are unchanged; the selection is cleared or moves to the        *)
(* clicked square.                                                         *)
(***************************************************************************)
UnrequestedMoveRejected == [][UnrequestedMoveStep]_vars

\* A piece is selected and a click is at hand on a square that is neither a
\* destination of its moves nor a piece of the side to move.
UnrequestedMoveRejectedWitness ==
    /\ ~gameOver
    /\ selectedSquare # NoSquare
    /\ validMoves # <<>>
    /\ \E sq \in ClickSquares(scenario, moveCount + 1) :
          /\ \A i \in DOMAIN validMoves : <<validMoves[i].row, validMoves[i].col>> # sq
          /\ ~isPieceOwnedByCurrentPlayer(board, currentTurn, sq[1], sq[2])

(***************************************************************************)
(* C15 as stated: getValidMoves returns no move for an unoccupied square   *)
(* and for a square holding a piece of the side that is not to move.       *)
(***************************************************************************)
ForeignOrEmptyQueryEmpty ==
    \A p \in (Rows \X Cols) \ OwnSquares : LegalMoves(p) = <<>>

\* The selection is an own piece together with its legal moves, or nothing.
SelectionIsOwn ==
    IF selectedSquare = NoSquare THEN validMoves = <<>>
    ELSE /\ board[selectedSquare.row][selectedSquare.col] # null
         /\ ColorOf(board[selectedSquare.row][selectedSquare.col]) = currentTurn
         /\ validMoves = LegalMoves(<<selectedSquare.row, selectedSquare.col>>)

EmptySquareQueryEmpty ==
    \A p \in Rows \X Cols : board[p[1]][p[2]] = null => LegalMoves(p) = <<>>

\* A committed move takes a piece of the side to move off its square.
OwnPieceStep ==
    Committed =>
        /\ board[selectedSquare.row][selectedSquare.col] # null
        /\ ColorOf(board[selectedSquare.row][selectedSquare.col]) = currentTurn
        /\ board'[selectedSquare.row][selectedSquare.col] = null
        /\ SomeMoveTo(LegalMoves(<<selectedSquare.row, selectedSquare.col>>),
                      lastMove'.toRow, lastMove'.toCol)

(***************************************************************************)
(* C15 amended: getValidMoves returns no move for an unoccupied square;    *)
(* for a piece of the side not to move it is the ownership test of the     *)
(* click handler that keeps the piece from being selected, so validMoves   *)
(* is empty unless a piece of the side to move is selected, and every      *)
(* committed move relocates a piece of the side to move.                   *)
(***************************************************************************)
OnlyOwnPiecesMove ==
    [](EmptySquareQueryEmpty /\ SelectionIsOwn) /\ [][OwnPieceStep]_vars

\* After a committed move nothing is selected, validMoves is empty, and a
\* click is at hand on a piece of the side not to move for which
\* getValidMoves does return moves.
OnlyOwnPiecesMoveWitness ==
    /\ moveCount > 0
    /\ selectedSquare = NoSquare
    /\ validMoves = <<>>
    /\ \E sq \in ClickSquares(scenario, moveCount + 1) :
          /\ board[sq[1]][sq[2]] # null
          /\ sq \notin OwnSquares
          /\ LegalMoves(sq) # <<>>

\* The step of resetGame out of a finished game.
ResetStep ==
    /\ lastMove' = ResetMove
    /\ moveCount' = 0
    /\ board' = INITIAL_BOARD
    /\ ~gameOver'

TerminalStep ==
    gameOver =>
        \/ UNCHANGED <<board, currentTurn, hasMoved, capturedPieces,
                       selectedSquare, validMoves, gameOver, gameStatus>>
        \/ ResetStep

(***************************************************************************)
(* C16  Terminal state is absorbing: once gameOver is true every click     *)
(* leaves board, side to move, castling flags, capture lists, selection    *)
(* and gameOver unchanged; the only step that leaves the terminal state is *)
(* resetGame.                                                              *)
(***************************************************************************)
TerminalAbsorbing == [][TerminalStep]_vars

\* The game is over and a click is at hand on a piece of the side that has
\* no move left.
TerminalAbsorbingWitness ==
    /\ gameOver
    /\ selectedSquare = NoSquare
    /\ \E sq \in ClickSquares(scenario, moveCount + 1) : sq \in OwnSquares

\* The fields of the game object the constructor assigns.
ProgramState ==
    [board |-> board, currentTurn |-> currentTurn, selectedSquare |-> selectedSquare,
     validMoves |-> validMoves, capturedPieces |-> capturedPieces,
     gameOver |-> gameOver, hasMoved |-> hasMoved]

\* Standard initial board, white to move, no selection, no valid moves,
\* empty capture lists, game not over, no flag set.
ConstructorState ==
    [board |-> INITIAL_BOARD, currentTurn |-> "white", selectedSquare |-> NoSquare,
     validMoves |-> <<>>, capturedPieces |-> [white |-> <<>>, black |-> <<>>],
     gameOver |-> FALSE, hasMoved |-> [f \in FlagNames |-> FALSE]]

\* Before the first click of the first game the state is the constructor's.
ConstructedState ==
    (lastMove = NoMove /\ selectedSquare = NoSquare) => ProgramState = ConstructorState

(***************************************************************************)
(* C17  Reset: from every reached state (mid-game, with a piece selected,  *)
(* or terminal) resetGame yields exactly the state the constructor         *)
(* produces: initial board, white to move, all six hasMoved flags false,   *)
(* both capture lists empty, no selection, no valid moves, gameOver false. *)
(***************************************************************************)
ResetYieldsConstructorState ==
    []ConstructedState /\ [][resetGame => ProgramState' = ConstructorState]_vars

\* The state right after a reset.
ResetYieldsConstructorStateWitness ==
    /\ lastMove.reset
    /\ moveCount = 0
    /\ ProgramState = ConstructorState

\* White moves on even counts of committed moves, black on odd ones, and the
\* last committed move was made by the side that is not to move now.
TurnParity ==
    /\ currentTurn = IF moveCount % 2 = 0 THEN "white" ELSE "black"
    /\ moveCount > 0 => ColorOf(lastMove.piece) # currentTurn

TurnStep ==
    /\ Committed =>
          /\ currentTurn' # currentTurn
          /\ ColorOf(board[selectedSquare.row][selectedSquare.col]) = currentTurn
    /\ lastMove' = lastMove => currentTurn' = currentTurn

(***************************************************************************)
(* C18  Turn alternation: white is to move initially, the side to move     *)
(* toggles exactly once on every committed move, and no other click        *)
(* (selecting, reselecting, clearing, a rejected click) changes it, so no  *)
(* side commits two moves in a row.                                        *)
(***************************************************************************)
TurnAlternation == []TurnParity /\ [][TurnStep]_vars

\* After three committed moves black is to move and has selected a piece.
TurnAlternationWitness ==
    /\ moveCount = 3
    /\ currentTurn = "black"
    /\ selectedSquare # NoSquare
    /\ ColorOf(lastMove.piece) = "white"

(***************************************************************************)
(* getPawnMoves as a function of the board: boards with one pawn and every *)
(* filling of the four squares the function reads.                         *)
(***************************************************************************)
PawnCols == {0, 3, 7}

Fillers == {null, "N", "n"}

Place(b, row, col, piece) ==
    IF isInBounds(row, col) THEN [b EXCEPT ![row][col] = piece] ELSE b

PawnBoard(pawn, row, col, one, two, left, right) ==
    LET direction == IF pawn = "P" THEN -1 ELSE 1
        b0 == [r \in Rows |-> [c \in Cols |-> null]]
        b1 == Place(b0, row + direction, col, one)
        b2 == Place(b1, row + 2 * direction, col, two)
        b3 == Place(b2, row + direction, col - 1, left)
        b4 == Place(b3, row + direction, col + 1, right)
    IN  [b4 EXCEPT ![row][col] = pawn]

PawnBoards ==
    {PawnBoard(pawn, row, col, one, two, left, right) :
        pawn \in {"P", "p"}, row \in Rows, col \in PawnCols,
        one \in Fillers, two \in Fillers, left \in Fillers, right \in Fillers}

PawnSquare(b) == CHOOSE q \in Rows \X Cols : toLowerCase(b[q[1]][q[2]]) = "p"

InitPawn ==
    /\ board \in PawnBoards
    /\ currentTurn = ColorOf(board[PawnSquare(board)[1]][PawnSquare(board)[2]])
    /\ selectedSquare = NoSquare
    /\ validMoves = <<>>
    /\ capturedPieces = [white |-> <<>>, black |-> <<>>]
    /\ gameOver = FALSE
    /\ hasMoved = [f \in FlagNames |-> FALSE]
    /\ gameStatus = ""
    /\ moveCount = 0
    /\ lastMove = NoMove
    /\ unmoved = {}
    /\ scenario = 1

\* getPawnMoves called on the pawn's square; the result is kept in validMoves.
callGetPawnMoves ==
    /\ selectedSquare = NoSquare
    /\ LET q == PawnSquare(board)
       IN  /\ selectedSquare' = [row |-> q[1], col |-> q[2]]
           /\ validMoves' = getPawnMoves(board, q[1], q[2])
    /\ UNCHANGED <<board, currentTurn, capturedPieces, gameOver, hasMoved,
                   gameStatus, moveCount, lastMove, unmoved, scenario>>

NextPawn == callGetPawnMoves

SpecPawn == InitPawn /\ [][NextPawn]_vars

\* The squares a pawn on (row, col) may go to, by the rules of the claim.
PawnTargets(row, col) ==
    LET white == board[row][col] = "P"
        direction == IF white THEN -1 ELSE 1
        startRow == IF white THEN 6 ELSE 1
        OnBoard(q) == q[1] \in Rows /\ q[2] \in Cols
        Empty(q) == OnBoard(q) /\ board[q[1]][q[2]] = null
        Opposing(q) == /\ OnBoard(q)
                       /\ board[q[1]][q[2]] # null
                       /\ ColorOf(board[q[1]][q[2]]) # ColorOf(board[row][col])
        one == <<row + direction, col>>
        two == <<row + 2 * direction, col>>
    IN  {q \in {one} : Empty(q)}
        \cup {q \in {two} : row = startRow /\ Empty(one) /\ Empty(q)}
        \cup {q \in {<<row + direction, col - 1>>, <<row + direction, col + 1>>} :
                 Opposing(q)}

(***************************************************************************)
(* C19  Pawn pseudo-legal moves: getPawnMoves returns exactly the square   *)
(* one step forward if it is on the board and empty, the square two steps  *)
(* forward only from the start row with both squares empty, and each       *)
(* diagonally-forward square only if it is on the board and holds an       *)
(* opposing piece; never a diagonal onto an empty square, never a square   *)
(* off the board, and no square twice.                                     *)
(***************************************************************************)
PawnPseudoLegalMoves ==
    selectedSquare # NoSquare =>
        /\ {<<validMoves[i].row, validMoves[i].col>> : i \in DOMAIN validMoves}
               = PawnTargets(selectedSquare.row, selectedSquare.col)
        /\ Len(validMoves) = Cardinality(PawnTargets(selectedSquare.row, selectedSquare.col))
        /\ \A i \in DOMAIN validMoves :
              /\ validMoves[i].row \in Rows
              /\ validMoves[i].col \in Cols
              /\ ~IsCastling(validMoves[i])

\* A white pawn on its start row was given all four moves: one step, two
\* steps and both captures.
PawnPseudoLegalMovesWitness ==
    /\ selectedSquare # NoSquare
    /\ board[selectedSquare.row][selectedSquare.col] = "P"
    /\ selectedSquare.row = 6
    /\ Len(validMoves) = 4

\* The castling moves getValidMoves returns for a king of either colour,
\* each with the square of that king.
CastlingMovesOfKings ==
    UNION {LET moves == LegalMoves(p)
           IN  {<<p, moves[i]>> : i \in {k \in DOMAIN moves : IsCastling(moves[k])}} :
              p \in SquaresOf(board, "K") \cup SquaresOf(board, "k")}

(***************************************************************************)
(* C20  Castling uses an own rook: whenever getValidMoves returns a        *)
(* castling move for a king, the corner square named by its rookCol, on    *)
(* the king's home rank, holds a rook of the king's colour.                *)
(***************************************************************************)
CastlingUsesOwnRook ==
    \A o \in CastlingMovesOfKings :
        LET king == board[o[1][1]][o[1][2]]
            homeRow == IF king = "K" THEN 7 ELSE 0
        IN  /\ o[2].row = homeRow
            /\ o[2].rookCol \in {0, 7}
            /\ board[homeRow][o[2].rookCol] = (IF king = "K" THEN "R" ELSE "r")

\* White is offered O-O with a white rook on h1 that is not the one that
\* started there.
CastlingUsesOwnRookWitness ==
    /\ WhiteToMove
    /\ selectedSquare = [row |-> 7, col |-> 4]
    /\ \E i \in DOMAIN validMoves : validMoves[i] = CastlingMv(7, 6, 7)
    /\ board[7][7] = "R"
    /\ <<7, 7>> \notin unmoved

\* A black rook stands on h1 with f1 and g1 empty, the white king and the
\* right-rook flag untouched.
OpposingRookOnCorner ==
    /\ board[7][7] = "r"
    /\ board[7][5] = null
    /\ board[7][6] = null
    /\ board[7][4] = "K"
    /\ ~hasMoved.whiteKing
    /\ ~hasMoved.whiteRookRight

WhitePieces == {"K", "Q", "R", "B", "N", "P"}

BlackPieces == {"k", "q", "r", "b", "n", "p"}

CountOnBoard(pieces) == Cardinality({p \in Rows \X Cols : board[p[1]][p[2]] \in pieces})

Entries(list) == {list[i] : i \in DOMAIN list}

(***************************************************************************)
(* C21  Piece conservation: for each colour the pieces of that colour on   *)
(* the board plus the entries of that colour's capture list number 16;     *)
(* capturedPieces.white holds white pieces only, capturedPieces.black      *)
(* black pieces only, and neither holds a king.                            *)
(***************************************************************************)
PieceConservation ==
    /\ CountOnBoard(WhitePieces) + Len(capturedPieces.white) = 16
    /\ CountOnBoard(BlackPieces) + Len(capturedPieces.black) = 16
    /\ Entries(capturedPieces.white) \subseteq WhitePieces \ {"K"}
    /\ Entries(capturedPieces.black) \subseteq BlackPieces \ {"k"}

\* Pieces of both colours have been captured, one of them a queen a white
\* pawn was promoted to.
PieceConservationWitness ==
    /\ Len(capturedPieces.black) >= 2
    /\ "Q" \in Entries(capturedPieces.white)
    /\ CountOnBoard({"Q"}) = 1
    /\ CountOnBoard({"P"}) = 7

(***************************************************************************)
(* C22  King flag agrees with king position: while hasMoved.whiteKing is   *)
(* false the white king stands on (7, 4), while hasMoved.blackKing is      *)
(* false the black king stands on (0, 4); so every castling move           *)
(* getValidMoves returns is returned for a king on its home square.        *)
(***************************************************************************)
KingFlagAgreesWithPosition ==
    /\ ~hasMoved.whiteKing => board[7][4] = "K"
    /\ ~hasMoved.blackKing => board[0][4] = "k"
    /\ \A o \in CastlingMovesOfKings :
          o[1] = (IF board[o[1][1]][o[1][2]] = "K" THEN <<7, 4>> ELSE <<0, 4>>)

\* The white king has left its home square with its flag set, and the black
\* king, still at home with its flag clear, is selected with castling on offer.
KingFlagAgreesWithPositionWitness ==
    /\ hasMoved.whiteKing
    /\ board[7][4] # "K"
    /\ ~hasMoved.blackKing
    /\ selectedSquare = [row |-> 0, col |-> 4]
    /\ \E i \in DOMAIN validMoves : IsCastling(validMoves[i])
====
